---- MODULE Spec2Model ----
(***************************************************************************)
(* Model of tools/generate_publications.py: the pipeline                   *)
(*   split_entries -> parse_entry -> sort -> group -> render.              *)
(*                                                                         *)
(* A Python str is a sequence of one-character strings.  Two characters   *)
(* that TLA+ strings cannot hold are written as tokens: "SUP2" is U+00B2   *)
(* (superscript two: str.isdigit() is True, int() raises ValueError) and   *)
(* "TAB" is U+0009.  "\n" is the only line break of the texts.  The        *)
(* literal pieces of the renderer's f-strings                              *)
(* (tags, attributes, the dash) are one token each, so that what the       *)
(* renderer emits itself is told apart from what comes from the records.   *)
(***************************************************************************)
EXTENDS Integers, Sequences, FiniteSets, TLC

VARIABLES
    bib,        \* main: the text read from the input file
    pc,         \* position in main / split_entries
    lines,      \* split_entries: bibtex.splitlines()
    idx,        \* split_entries: index of the next line of the for loop
    buff,       \* split_entries: buff
    depth,      \* split_entries: depth
    in_entry,   \* split_entries: in_entry
    entries,    \* split_entries: entries, then main's list of raw entries
    pubs,       \* main: pubs
    grouped,    \* main: grouped, a dict as its <<key, list>> items in insertion order
    years,      \* main: years
    sec,        \* main: position of the output loop in years (i + 1)
    out,        \* standard output, one element per print() call
    exit_code   \* process exit status (-1 while running)

vars == <<bib, pc, lines, idx, buff, depth, in_entry, entries, pubs, grouped,
          years, sec, out, exit_code>>

-----------------------------------------------------------------------------
(* Characters *)

UpperSeq == <<"A","B","C","D","E","F","G","H","I","J","K","L","M",
              "N","O","P","Q","R","S","T","U","V","W","X","Y","Z">>
LowerSeq == <<"a","b","c","d","e","f","g","h","i","j","k","l","m",
              "n","o","p","q","r","s","t","u","v","w","x","y","z">>
DigitSeq == <<"0","1","2","3","4","5","6","7","8","9">>

\* The characters of the model in code-point order.
CodePointOrder ==
    <<"TAB", "\n", " ", "\"", "#", "&", "'", ",", "-", ".", "/">> \o DigitSeq
    \o <<":", ";", "<", "=", ">", "@">> \o UpperSeq \o <<"_">> \o LowerSeq
    \o <<"{", "}", "SUP2">>

Range(f) == {f[i] : i \in DOMAIN f}

Upper == Range(UpperSeq)
Lower == Range(LowerSeq)
Decimal == Range(DigitSeq)
Chars == Range(CodePointOrder)

OrdTable == [c \in Chars |-> CHOOSE i \in DOMAIN CodePointOrder : CodePointOrder[i] = c]
LowerTable == [c \in Upper |-> LowerSeq[CHOOSE i \in DOMAIN UpperSeq : UpperSeq[i] = c]]
DigitTable == [c \in Decimal |-> (CHOOSE i \in DOMAIN DigitSeq : DigitSeq[i] = c) - 1]

\* rank of a character in code-point order (what str comparison compares)
ord(c) == OrdTable[c]
\* str.lower() on one character
lowerChar(c) == IF c \in Upper THEN LowerTable[c] ELSE c
\* str.isspace(): what strip() removes and the regex \s matches
IsSpace(c) == c \in {" ", "\n", "TAB"}
\* regex [a-zA-Z]
IsLetter(c) == c \in Upper \cup Lower
\* regex \d (decimal digits only)
IsDecimal(c) == c \in Decimal
\* str.isdigit() on one character: decimal digits and digit-like characters such as U+00B2
IsDigitChar(c) == c \in Decimal \cup {"SUP2"}
\* regex \w: alphanumerics (str.isalnum) and the underscore
IsWord(c) == c \in Upper \cup Lower \cup Decimal \cup {"_", "SUP2"}

-----------------------------------------------------------------------------
(* str helpers *)

\* first position >= i of s that holds no whitespace (Len(s)+1 when there is none)
RECURSIVE SkipSpace(_, _)
SkipSpace(s, i) == IF i <= Len(s) /\ IsSpace(s[i]) THEN SkipSpace(s, i + 1) ELSE i

\* last position <= j of s that holds no whitespace (0 when there is none)
RECURSIVE SkipSpaceBack(_, _)
SkipSpaceBack(s, j) == IF j >= 1 /\ IsSpace(s[j]) THEN SkipSpaceBack(s, j - 1) ELSE j

\* str.strip()
Strip(s) == SubSeq(s, SkipSpace(s, 1), SkipSpaceBack(s, Len(s)))

\* str.startswith(p) / str.endswith(p)
StartsWith(s, p) == Len(s) >= Len(p) /\ SubSeq(s, 1, Len(p)) = p
EndsWith(s, p) == Len(s) >= Len(p) /\ SubSeq(s, Len(s) - Len(p) + 1, Len(s)) = p

\* str.count(c) for a one-character c
Count(s, c) == Cardinality({i \in DOMAIN s : s[i] = c})

\* position of the first "\n" at or after i (Len(s)+1 when there is none)
RECURSIVE NextNewline(_, _)
NextNewline(s, i) == IF i <= Len(s) /\ s[i] # "\n" THEN NextNewline(s, i + 1) ELSE i

\* str.splitlines(): the pieces between line breaks, no empty piece after a final break
RECURSIVE SplitLinesFrom(_, _)
SplitLinesFrom(s, i) ==
    IF i > Len(s) THEN <<>>
    ELSE LET e == NextNewline(s, i)
         IN  <<SubSeq(s, i, e - 1)>> \o SplitLinesFrom(s, e + 1)

SplitLines(s) == SplitLinesFrom(s, 1)

\* sep.join(parts)
RECURSIVE Join(_, _)
Join(parts, sep) ==
    IF parts = <<>> THEN <<>>
    ELSE IF Len(parts) = 1 THEN parts[1]
    ELSE parts[1] \o sep \o Join(Tail(parts), sep)

NL == <<"\n">>

-----------------------------------------------------------------------------
(* split_entries *)

\* line.strip().startswith("@")
IsAtLine(line) == StartsWith(Strip(line), <<"@">>)

\* line.count("{") - line.count("}")
BraceDelta(line) == Count(line, "{") - Count(line, "}")

\* a variant of ClosesEntry: the depth must be exactly 0
ClosesAtZero(d, line) == d = 0 /\ EndsWith(Strip(line), <<"}">>)

\* the end test of line 37: depth <= 0 and line.strip().endswith("}")
ClosesEntry(d, line) == d <= 0 /\ EndsWith(Strip(line), <<"}">>)

\* a variant of EntryText: the joined lines, not stripped
EntryTextUnstripped(b) == Join(b, NL)

\* "\n".join(buff).strip()
EntryText(b) == Strip(Join(b, NL))

\* line 25: lines = bibtex.splitlines(), with the locals of lines 20-23
SplitStart ==
    /\ pc = "split"
    /\ lines' = SplitLines(bib)
    /\ idx' = 1
    /\ pc' = "loop"
    /\ UNCHANGED <<bib, buff, depth, in_entry, entries, pubs, grouped, years,
                   sec, out, exit_code>>

\* one iteration of the for loop, lines 25-40
SplitLine ==
    /\ pc = "loop"
    /\ idx <= Len(lines)
    /\ LET line == lines[idx]
           at == IsAtLine(line)
           \* lines 26-31
           entries1 == IF at /\ buff # <<>> THEN Append(entries, EntryText(buff))
                       ELSE entries
           buff1 == IF at THEN <<>> ELSE buff
           in1 == IF at THEN TRUE ELSE in_entry
           depth1 == IF at THEN 0 ELSE depth
           \* lines 33-40
           buff2 == Append(buff1, line)
           depth2 == depth1 + BraceDelta(line)
           closes == ClosesEntry(depth2, line)
       IN  IF in1
           THEN /\ depth' = depth2
                /\ buff' = IF closes THEN <<>> ELSE buff2
                /\ entries' = IF closes THEN Append(entries1, EntryText(buff2))
                              ELSE entries1
                /\ in_entry' = IF closes THEN FALSE ELSE in1
           ELSE /\ depth' = depth1
                /\ buff' = buff1
                /\ entries' = entries1
                /\ in_entry' = in1
    /\ idx' = idx + 1
    /\ UNCHANGED <<bib, pc, lines, pubs, grouped, years, sec, out, exit_code>>

\* lines 42-43: the trailing buffer is flushed
SplitFlush ==
    /\ pc = "loop"
    /\ idx > Len(lines)
    /\ entries' = IF buff # <<>> THEN Append(entries, EntryText(buff)) ELSE entries
    /\ pc' = "filter"
    /\ UNCHANGED <<bib, lines, idx, buff, depth, in_entry, pubs, grouped, years,
                   sec, out, exit_code>>

\* [e for e in entries if e.startswith("@")]
RECURSIVE FilterAt(_)
FilterAt(es) ==
    IF es = <<>> THEN <<>>
    ELSE IF StartsWith(es[1], <<"@">>) THEN <<es[1]>> \o FilterAt(Tail(es))
    ELSE FilterAt(Tail(es))

\* line 44: the return of split_entries
SplitReturn ==
    /\ pc = "filter"
    /\ entries' = FilterAt(entries)
    /\ pc' = "parse"
    /\ UNCHANGED <<bib, lines, idx, buff, depth, in_entry, pubs, grouped, years,
                   sec, out, exit_code>>

-----------------------------------------------------------------------------
(* _field_re and clean_value *)

\* a variant of LineStartAt: the pattern without re.MULTILINE's line anchor
LineStartAnywhere(s, i) == i >= 1

\* regex ^ under re.MULTILINE: the start of the text or just after a newline
LineStartAt(s, i) == i = 1 \/ s[i - 1] = "\n"

\* regex $ under re.MULTILINE: the end of the text or just before a newline
LineEndAt(s, i) == i = Len(s) + 1 \/ s[i] = "\n"

\* first position >= i of s that holds no letter: the end of a greedy [a-zA-Z]+
RECURSIVE SkipLetters(_, _)
SkipLetters(s, i) == IF i <= Len(s) /\ IsLetter(s[i]) THEN SkipLetters(s, i + 1) ELSE i

Max(S) == CHOOSE x \in S : \A y \in S : y <= x
Min(S) == CHOOSE x \in S : \A y \in S : x <= y

\* where the tail \s*,?\s*$ of _field_re ends when matched from position v, 0 when
\* it does not match.  Greedy order: the first \s* takes the whole whitespace run;
\* a comma there is taken when a line end follows its trailing whitespace; else
\* the match backs off to the last line end inside the whitespace run.
FieldTailEnd(s, v) ==
    LET p == SkipSpace(s, v)
        afterComma == IF p <= Len(s) /\ s[p] = ","
                      THEN {q \in (p + 1)..SkipSpace(s, p + 1) : LineEndAt(s, q)}
                      ELSE {}
        plain == {q \in v..p : LineEndAt(s, q)}
    IN  IF afterComma # {} THEN Max(afterComma)
        ELSE IF plain # {} THEN Max(plain)
        ELSE 0

\* the ends v (exclusive) of a value (.+?) starting at w: at least one character,
\* none of them a newline, with the tail of the pattern matching from v
FieldValueEnds(s, w) ==
    IF w > Len(s) THEN {}
    ELSE {v \in (w + 1)..NextNewline(s, w) : FieldTailEnd(s, v) # 0}

\* _field_re matched at position i: [ok, key, value, end]
FieldMatchAt(s, i) ==
    LET a == SkipSpace(s, i)              \* ^\s*
        b == SkipLetters(s, a)            \* ([a-zA-Z]+)
        c == SkipSpace(s, b)              \* \s*
        none == [ok |-> FALSE, key |-> <<>>, value |-> <<>>, end |-> i]
    IN  IF ~(LineStartAt(s, i) /\ b > a /\ c <= Len(s) /\ s[c] = "=") THEN none
        ELSE LET \* \s* after "=" is greedy and backs off; (.+?) is lazy
                 starts == {w \in (c + 1)..SkipSpace(s, c + 1) : FieldValueEnds(s, w) # {}}
             IN  IF starts = {} THEN none
                 ELSE LET w == Max(starts)
                          v == Min(FieldValueEnds(s, w))
                      IN  [ok |-> TRUE, key |-> SubSeq(s, a, b - 1),
                           value |-> SubSeq(s, w, v - 1), end |-> FieldTailEnd(s, v)]

\* _field_re.findall(entry) from position i on: the <<key, value>> pairs, in order
RECURSIVE FindAllFields(_, _)
FindAllFields(s, i) ==
    IF i > Len(s) THEN <<>>
    ELSE LET m == FieldMatchAt(s, i)
         IN  IF m.ok THEN <<<<m.key, m.value>>>> \o FindAllFields(s, m.end)
             ELSE FindAllFields(s, i + 1)

\* v[1:-1]
Inner(v) == SubSeq(v, 2, Len(v) - 1)

\* re.sub(r"\s+", " ", v): every whitespace run becomes one space
RECURSIVE CollapseSpace(_, _)
CollapseSpace(v, i) ==
    IF i > Len(v) THEN <<>>
    ELSE IF IsSpace(v[i]) THEN <<" ">> \o CollapseSpace(v, SkipSpace(v, i))
    ELSE <<v[i]>> \o CollapseSpace(v, i + 1)

\* v.replace("{", "").replace("}", "")
DropBraces(v) == SelectSeq(v, LAMBDA c : c \notin {"{", "}"})

\* str.lower()
lower(s) == [i \in DOMAIN s |-> lowerChar(s[i])]

clean_value(v) ==
    LET v1 == Strip(v)
        v2 == IF StartsWith(v1, <<"{">>) /\ EndsWith(v1, <<"}">>) THEN Inner(v1) ELSE v1
        v3 == IF StartsWith(v2, <<"\"">>) /\ EndsWith(v2, <<"\"">>) THEN Inner(v2) ELSE v2
        v4 == Strip(CollapseSpace(v3, 1))
    IN  DropBraces(v4)

\* lines 66-68: the fields dict, as the list of its assignments in order
ParseFields(entry) ==
    LET found == FindAllFields(entry, 1)
    IN  [n \in DOMAIN found |-> <<lower(found[n][1]), clean_value(found[n][2])>>]

\* "name in fields"
HasField(fields, name) == \E n \in DOMAIN fields : fields[n][1] = name

\* a variant of FieldGet: the first assignment to name wins
FieldGetFirst(fields, name, default) ==
    IF \E n \in DOMAIN fields : fields[n][1] = name
    THEN fields[Min({n \in DOMAIN fields : fields[n][1] = name})][2]
    ELSE default

\* fields.get(name, default): the last assignment to name wins
FieldGet(fields, name, default) ==
    IF HasField(fields, name)
    THEN fields[Max({n \in DOMAIN fields : fields[n][1] = name})][2]
    ELSE default

-----------------------------------------------------------------------------
(* parse_entry *)

K_year == <<"y", "e", "a", "r">>
K_title == <<"t", "i", "t", "l", "e">>
K_author == <<"a", "u", "t", "h", "o", "r">>
K_journal == <<"j", "o", "u", "r", "n", "a", "l">>
K_booktitle == <<"b", "o", "o", "k", "t", "i", "t", "l", "e">>
K_publisher == <<"p", "u", "b", "l", "i", "s", "h", "e", "r">>
K_url == <<"u", "r", "l">>
K_doi == <<"d", "o", "i">>
K_volume == <<"v", "o", "l", "u", "m", "e">>
K_number == <<"n", "u", "m", "b", "e", "r">>
K_pages == <<"p", "a", "g", "e", "s">>

S_Unknown == <<"U", "n", "k", "n", "o", "w", "n">>
S_Untitled == <<"U", "n", "t", "i", "t", "l", "e", "d">>
S_misc == <<"m", "i", "s", "c">>
S_doi_org == <<"h", "t", "t", "p", "s", ":", "/", "/", "d", "o", "i", ".", "o", "r", "g", "/">>
S_vol == <<"v", "o", "l", ".", " ">>
S_no == <<"n", "o", ".", " ">>
S_pp == <<"p", "p", ".", " ">>
S_and == <<" ", "a", "n", "d", " ">>
S_comma == <<",", " ">>

\* first position >= i of s that holds no \w character: the end of a greedy \w+
RECURSIVE SkipWord(_, _)
SkipWord(s, i) == IF i <= Len(s) /\ IsWord(s[i]) THEN SkipWord(s, i + 1) ELSE i

\* position of the first "," at or after i (Len(s)+1 when there is none)
RECURSIVE NextComma(_, _)
NextComma(s, i) == IF i <= Len(s) /\ s[i] # "," THEN NextComma(s, i + 1) ELSE i

\* entry.split("\n", 1)[0]
FirstLine(entry) == SubSeq(entry, 1, NextNewline(entry, 1) - 1)

\* lines 62-64 and 106: re.match(r'^@(\w+)\s*{\s*([^,]+)\s*,', header.strip())
\* as [ok, type, key]
HeaderMatch(entry) ==
    LET h == Strip(FirstLine(entry))
        a == SkipWord(h, 2)               \* @(\w+)
        b == SkipSpace(h, a)              \* \s*{
        c == SkipSpace(h, b + 1)          \* \s* (greedy; gives one blank back to the key)
        k == IF c <= Len(h) /\ h[c] = "," THEN c - 1 ELSE c
        e == NextComma(h, k)              \* ([^,]+) up to the first comma
        none == [ok |-> FALSE, type |-> S_misc, key |-> <<>>]
    IN  IF ~(h # <<>> /\ h[1] = "@" /\ a > 2 /\ b <= Len(h) /\ h[b] = "{") THEN none
        ELSE IF ~(k > b /\ e > k /\ e <= Len(h)) THEN none
        ELSE [ok |-> TRUE, type |-> lower(SubSeq(h, 2, a - 1)), key |-> SubSeq(h, k, e - 1)]

\* a variant of WordBoundaryAt: the pattern without its \b
NoWordBoundary(s, i) == i >= 1

\* \b at position i of s: exactly one of the characters around it is a \w character
WordBoundaryAt(s, i) ==
    (i > 1 /\ IsWord(s[i - 1])) # (i <= Len(s) /\ IsWord(s[i]))

\* (19\d{2}|20\d{2}) at position i
YearDigitsAt(s, i) ==
    /\ i + 3 <= Len(s)
    /\ \/ s[i] = "1" /\ s[i + 1] = "9"
       \/ s[i] = "2" /\ s[i + 1] = "0"
    /\ IsDecimal(s[i + 2])
    /\ IsDecimal(s[i + 3])

\* line 73: re.search(r"\b(19\d{2}|20\d{2})\b", entry): the leftmost match, <<>> for None
YearSearch(entry) ==
    LET hits == {i \in DOMAIN entry :
                    /\ YearDigitsAt(entry, i)
                    /\ WordBoundaryAt(entry, i)
                    /\ WordBoundaryAt(entry, i + 4)}
    IN  IF hits = {} THEN <<>> ELSE SubSeq(entry, Min(hits), Min(hits) + 3)

\* str.replace(" and ", ", "): left to right, matches do not overlap
RECURSIVE ReplaceAnd(_, _)
ReplaceAnd(s, i) ==
    IF i > Len(s) THEN <<>>
    ELSE IF i + Len(S_and) - 1 <= Len(s) /\ SubSeq(s, i, i + Len(S_and) - 1) = S_and
    THEN S_comma \o ReplaceAnd(s, i + Len(S_and))
    ELSE <<s[i]>> \o ReplaceAnd(s, i + 1)

\* lines 70-74
ResolveYear(fields, entry) ==
    LET year == FieldGet(fields, K_year, <<>>)
        ym == YearSearch(entry)
    IN  IF year # <<>> THEN year
        ELSE IF ym # <<>> THEN ym
        ELSE S_Unknown

\* line 81: a or b or c or ""
FirstTruthy(a, b, c) == IF a # <<>> THEN a ELSE IF b # <<>> THEN b ELSE c

\* lines 70-113: the record built from the header match m and the fields dict
BuildRecord(m, fields, entry) ==
    LET venue == FirstTruthy(FieldGet(fields, K_journal, <<>>),
                             FieldGet(fields, K_booktitle, <<>>),
                             FieldGet(fields, K_publisher, <<>>))
        url0 == FieldGet(fields, K_url, <<>>)
        doi == FieldGet(fields, K_doi, <<>>)
        volume == FieldGet(fields, K_volume, <<>>)
        number == FieldGet(fields, K_number, <<>>)
        pages == FieldGet(fields, K_pages, <<>>)
        extra == (IF venue # <<>> THEN <<venue>> ELSE <<>>)
                 \o (IF volume # <<>> THEN <<S_vol \o volume>> ELSE <<>>)
                 \o (IF number # <<>> THEN <<S_no \o number>> ELSE <<>>)
                 \o (IF pages # <<>> THEN <<S_pp \o pages>> ELSE <<>>)
    IN  [type |-> m.type,
         key |-> m.key,
         year |-> ResolveYear(fields, entry),
         title |-> FieldGet(fields, K_title, S_Untitled),
         author |-> ReplaceAnd(FieldGet(fields, K_author, <<>>), 1),
         venue |-> venue,
         url |-> IF url0 = <<>> /\ doi # <<>> THEN S_doi_org \o doi ELSE url0,
         extra |-> Join(extra, S_comma)]

\* lines 61-113; m and fields are bound to their values, computed once as in the code
parse_entry(entry) ==
    CHOOSE pub \in {BuildRecord(m, fields, entry) :
                       m \in {HeaderMatch(entry)}, fields \in {ParseFields(entry)}} : TRUE

\* line 146: pubs = [parse_entry(e) for e in split_entries(bib)]
ParseEntries ==
    /\ pc = "parse"
    /\ pubs' = [k \in DOMAIN entries |-> parse_entry(entries[k])]
    /\ pc' = "sort"
    /\ UNCHANGED <<bib, lines, idx, buff, depth, in_entry, entries, grouped, years,
                   sec, out, exit_code>>

-----------------------------------------------------------------------------
(* sort_key, the sort and the grouping of main *)

\* str.isdigit(): not empty and every character is a digit character
isdigit(y) == y # <<>> /\ \A i \in DOMAIN y : IsDigitChar(y[i])

\* int(y) raises ValueError: a character that is a digit for isdigit() but no decimal digit
IntRaises(y) == \E i \in DOMAIN y : ~IsDecimal(y[i])

\* int(y) for a string of decimal digits
RECURSIVE IntValue(_)
IntValue(y) ==
    IF y = <<>> THEN 0
    ELSE 10 * IntValue(SubSeq(y, 1, Len(y) - 1)) + DigitTable[y[Len(y)]]

\* line 118 raises
SortKeyRaises(pub) == isdigit(pub.year) /\ IntRaises(pub.year)

\* a variant of sort_key: the title compared as written, not lowercased
sort_key_cased(pub) ==
    LET ynum == IF isdigit(pub.year) THEN IntValue(pub.year) ELSE -1
    IN  <<-ynum, pub.title>>

\* a variant of sort_key: the year alone, the title left out
sort_key_year_only(pub) ==
    LET ynum == IF isdigit(pub.year) THEN IntValue(pub.year) ELSE -1
    IN  <<-ynum, <<>>>>

\* lines 115-119: (-ynum, pub["title"].lower())
sort_key(pub) ==
    LET ynum == IF isdigit(pub.year) THEN IntValue(pub.year) ELSE -1
    IN  <<-ynum, lower(pub.title)>>

\* s < t for str: the first differing character decides, a proper prefix is smaller
RECURSIVE StrLess(_, _)
StrLess(s, t) ==
    IF t = <<>> THEN FALSE
    ELSE IF s = <<>> THEN TRUE
    ELSE IF s[1] # t[1] THEN ord(s[1]) < ord(t[1])
    ELSE StrLess(Tail(s), Tail(t))

\* a < b for the tuples sort_key returns
KeyLess(a, b) == a[1] < b[1] \/ (a[1] = b[1] /\ StrLess(a[2], b[2]))

\* a variant of year_key: the numeric years ascending
year_key_ascending(y) == IF isdigit(y) THEN <<0, IntValue(y)>> ELSE <<1, 0>>

\* line 157: the key of the sort of the years
year_key(y) == IF isdigit(y) THEN <<0, -IntValue(y)>> ELSE <<1, 0>>

\* a < b for the tuples year_key returns
YearKeyLess(a, b) == a[1] < b[1] \/ (a[1] = b[1] /\ a[2] < b[2])

\* list.sort / sorted are stable: x goes after every element that is not greater
RECURSIVE InsertPub(_, _)
InsertPub(sorted, x) ==
    IF sorted = <<>> THEN <<x>>
    ELSE IF KeyLess(sort_key(x), sort_key(sorted[Len(sorted)])) 
    THEN Append(InsertPub(SubSeq(sorted, 1, Len(sorted) - 1), x), sorted[Len(sorted)])
    ELSE Append(sorted, x)

RECURSIVE SortedPubs(_)
SortedPubs(ps) ==
    IF ps = <<>> THEN <<>>
    ELSE InsertPub(SortedPubs(SubSeq(ps, 1, Len(ps) - 1)), ps[Len(ps)])

RECURSIVE InsertYear(_, _)
InsertYear(sorted, y) ==
    IF sorted = <<>> THEN <<y>>
    ELSE IF YearKeyLess(year_key(y), year_key(sorted[Len(sorted)]))
    THEN Append(InsertYear(SubSeq(sorted, 1, Len(sorted) - 1), y), sorted[Len(sorted)])
    ELSE Append(sorted, y)

RECURSIVE SortedYears(_)
SortedYears(ys) ==
    IF ys = <<>> THEN <<>>
    ELSE InsertYear(SortedYears(SubSeq(ys, 1, Len(ys) - 1)), ys[Len(ys)])

\* line 147: pubs.sort(key=sort_key)
SortPubs ==
    /\ pc = "sort"
    /\ \A k \in DOMAIN pubs : ~SortKeyRaises(pubs[k])
    /\ pubs' = SortedPubs(pubs)
    /\ pc' = "group"
    /\ UNCHANGED <<bib, lines, idx, buff, depth, in_entry, entries, grouped, years,
                   sec, out, exit_code>>

\* line 147 when sort_key raises ValueError: the traceback ends the process
SortRaise ==
    /\ pc = "sort"
    /\ \E k \in DOMAIN pubs : SortKeyRaises(pubs[k])
    /\ pc' = "error"
    /\ exit_code' = 1
    /\ UNCHANGED <<bib, lines, idx, buff, depth, in_entry, entries, pubs, grouped,
                   years, sec, out>>

\* grouped.setdefault(p["year"], []).append(p): a dict keeps its keys in insertion order
GroupAdd(g, p) ==
    IF \E n \in DOMAIN g : g[n][1] = p.year
    THEN [n \in DOMAIN g |-> IF g[n][1] = p.year THEN <<g[n][1], Append(g[n][2], p)>>
                             ELSE g[n]]
    ELSE Append(g, <<p.year, <<p>>>>)

RECURSIVE GroupAll(_)
GroupAll(ps) ==
    IF ps = <<>> THEN <<>>
    ELSE GroupAdd(GroupAll(SubSeq(ps, 1, Len(ps) - 1)), ps[Len(ps)])

\* grouped[year]
GroupOf(g, year) == g[CHOOSE n \in DOMAIN g : g[n][1] = year][2]

\* lines 150-152
GroupPubs ==
    /\ pc = "group"
    /\ grouped' = GroupAll(pubs)
    /\ pc' = "years"
    /\ UNCHANGED <<bib, lines, idx, buff, depth, in_entry, entries, pubs, years,
                   sec, out, exit_code>>

\* lines 155-158: years = sorted(grouped.keys(), key=...); every key passed sort_key
\* at line 147, so int() does not raise here
SortYears ==
    /\ pc = "years"
    /\ years' = SortedYears([n \in DOMAIN grouped |-> grouped[n][1]])
    /\ sec' = 1
    /\ pc' = "render"
    /\ UNCHANGED <<bib, lines, idx, buff, depth, in_entry, entries, pubs, grouped,
                   out, exit_code>>

-----------------------------------------------------------------------------
(* html.escape, format_li and the output loop *)

\* a variant of EscapeChar: html.escape(s, quote=False)
EscapeCharNoQuote(c) ==
    CASE c = "&" -> <<"&", "a", "m", "p", ";">>
      [] c = "<" -> <<"&", "l", "t", ";">>
      [] c = ">" -> <<"&", "g", "t", ";">>
      [] OTHER -> <<c>>

\* html.escape(s, quote=True) on one character
EscapeChar(c) ==
    CASE c = "&" -> <<"&", "a", "m", "p", ";">>
      [] c = "<" -> <<"&", "l", "t", ";">>
      [] c = ">" -> <<"&", "g", "t", ";">>
      [] c = "\"" -> <<"&", "q", "u", "o", "t", ";">>
      [] c = "'" -> <<"&", "#", "x", "2", "7", ";">>
      [] OTHER -> <<c>>

RECURSIVE escape(_)
escape(s) == IF s = <<>> THEN <<>> ELSE EscapeChar(s[1]) \o escape(Tail(s))

\* the literal pieces of the f-strings of format_li
L_a_open == "<a href=\""
L_a_attrs == "\" target=\"_blank\" rel=\"noopener noreferrer\"><strong>"
L_a_close == "</strong></a>"
L_strong_open == "<strong>"
L_strong_close == "</strong>"
L_dash == "EMDASH "
L_em_open == "<em>"
L_em_close == "</em>."

\* lines 121-136
format_li(pub) ==
    LET title == escape(pub.title)
        author == IF pub.author # <<>> THEN escape(pub.author) ELSE <<>>
        extra == IF pub.extra # <<>> THEN escape(pub.extra) ELSE <<>>
        t == IF pub.url # <<>>
             THEN <<L_a_open>> \o escape(pub.url) \o <<L_a_attrs>> \o title \o <<L_a_close>>
             ELSE <<L_strong_open>> \o title \o <<L_strong_close>>
        parts == <<t>>
                 \o (IF author # <<>> THEN <<<<L_dash>> \o author \o <<".">>>> ELSE <<>>)
                 \o (IF extra # <<>> THEN <<<<L_em_open>> \o extra \o <<L_em_close>>>> ELSE <<>>)
    IN  Join(parts, <<" ">>)

\* the literal lines and pieces of the prints of main
L_section_first == "<section class=\"card\">"
L_section_next == "<section class=\"card\" style=\"margin-top:14px;\">"
L_h2_open == "  <h2>"
L_h2_close == "</h2>"
L_ul_open == "  <ul class=\"pub-list\">"
L_li_open == "    <li>"
L_li_close == "</li>"
L_ul_close == "  </ul>"
L_section_close == "</section>\n"

\* lines 162-169: what one iteration of the output loop prints for bucket i
SectionLines(i, year, ps) ==
    << <<IF i = 1 THEN L_section_first ELSE L_section_next>>,
       <<L_h2_open>> \o escape(year) \o <<L_h2_close>>,
       <<L_ul_open>> >>
    \o [k \in DOMAIN ps |-> <<L_li_open>> \o format_li(ps[k]) \o <<L_li_close>>]
    \o << <<L_ul_close>>, <<L_section_close>> >>

\* one iteration of the loop of lines 161-169
RenderSection ==
    /\ pc = "render"
    /\ sec <= Len(years)
    /\ out' = out \o SectionLines(sec, years[sec], GroupOf(grouped, years[sec]))
    /\ sec' = sec + 1
    /\ UNCHANGED <<bib, pc, lines, idx, buff, depth, in_entry, entries, pubs, grouped,
                   years, exit_code>>

\* main returns: the interpreter exits with status 0
Finish ==
    /\ pc = "render"
    /\ sec > Len(years)
    /\ pc' = "done"
    /\ exit_code' = 0
    /\ UNCHANGED <<bib, lines, idx, buff, depth, in_entry, entries, pubs, grouped,
                   years, sec, out>>

-----------------------------------------------------------------------------
(* Inputs of the splitter: every text of at most MaxLines lines of LinePool *)

MaxLines == 4

LinePool ==
    { <<"@","a","{","k",",">>,          \* opens an entry, depth 1
      <<"@","b","{","k","}">>,          \* an entry closed on its own line
      <<" ","@","c","{">>,              \* an indented "@" line
      <<" ","t","=","{","x","}">>,      \* ends with "}" while the entry is open
      <<"}">>,                          \* closes
      <<"}",",">>,                      \* depth back to 0, but no "}" at the end
      <<"{">>,                          \* one more open brace
      <<"@","d","}",",">>,              \* starts an entry at depth -1, not closed
      <<>> }                            \* a blank line

RECURSIVE SeqsUpTo(_, _)
SeqsUpTo(S, n) ==
    IF n = 0 THEN {<<>>}
    ELSE LET shorter == SeqsUpTo(S, n - 1)
         IN  shorter \cup {Append(q, x) : q \in shorter, x \in S}

SplitInputs == {Join(ls, NL) : ls \in SeqsUpTo(LinePool, MaxLines)}

InitAt(text) ==
    /\ bib = text
    /\ pc = "split"
    /\ lines = <<>>
    /\ idx = 0
    /\ buff = <<>>
    /\ depth = 0
    /\ in_entry = FALSE
    /\ entries = <<>>
    /\ pubs = <<>>
    /\ grouped = <<>>
    /\ years = <<>>
    /\ sec = 0
    /\ out = <<>>
    /\ exit_code = -1

InitSplit == \E text \in SplitInputs : InitAt(text)

NextSplit == SplitStart \/ SplitLine \/ SplitFlush \/ SplitReturn

SpecSplit == InitSplit /\ [][NextSplit]_vars

-----------------------------------------------------------------------------
(* Inputs of the whole pipeline: the single-line example, and every text of at
   most MaxEntries blocks of BlockPool *)

MaxEntries == 3

ExampleBib ==
    <<"@", "a", "r", "t", "i", "c", "l", "e", "{", "x", "2", "0", "2", "0", ",", " ", "t", "i", "t", "l", "e", "=", "{", "H", "e", "l", "l", "o", " ", "W", "o", "r", "l", "d", "}", ",", " ", "a", "u", "t", "h", "o", "r", "=", "{", "A", " ", "a", "n", "d", " ", "B", "}", ",", " ", "y", "e", "a", "r", "=", "{", "2", "0", "2", "0", "}", ",", " ", "u", "r", "l", "=", "{", "h", "t", "t", "p", ":", "/", "/", "e", "x", ".", "c", "o", "m", "}", "}">>

BlockPool ==
    { <<"@", "a", "{", "x", "2", "0", "2", "0", ",", "\n", " ", "t", "i", "t", "l", "e", "=", "{", "Z", "e", "b", "r", "a", "}", ",", "\n", "}">>,
      <<"@", "b", "{", "k", ",", "\n", " ", "y", "e", "a", "r", " ", "=", " ", "{", "2", "0", "2", "1", "}", ",", "\n", " ", "t", "i", "t", "l", "e", " ", "=", " ", "{", "a", "p", "p", "l", "e", "}", "\n", "}">>,
      <<"@", "c", "{", "k", ",", "\n", " ", "y", "e", "a", "r", " ", "=", " ", "{", "}", ",", "\n", " ", "t", "i", "t", "l", "e", "=", "{", "B", " ", "1", "9", "9", "9", "}", "\n", "}">>,
      <<"@", "d", "{", "k", ",", "\n", " ", "y", "e", "a", "r", " ", "=", " ", "{", "SUP2", "}", "\n", "}">>,
      <<"@", "e", "{", "k", ",", "\n", " ", "y", "e", "a", "r", " ", "=", " ", "{", "n", ".", "d", ".", "}", ",", "\n", " ", "t", "i", "t", "l", "e", "=", "{", "A", "p", "p", "l", "e", "}">>,
      <<"@", "f", "{", "2", "0", "2", "0", ",", "\n", " ", "t", "i", "t", "l", "e", "=", "{", "<", "b", ">", "&", "}", ",", "\n", " ", "a", "u", "t", "h", "o", "r", "=", "{", "A", " ", "a", "n", "d", " ", "B", "}", ",", "\n", " ", "d", "o", "i", "=", "{", "1", "0", "/", "x", "}", "}">>,
      <<"j", "u", "n", "k", " ", "}", "\n", " ", "@", "g", " ", "k", "\n", " ", "y", "e", "a", "r", "=", "0", "2", "0", "2", "1", ",">>,
      <<"@", "h", "{", "k", ",", "\n", " ", "t", "i", "t", "l", "e", "=", "{", "a", "p", "p", "l", "e", "}", ",", "\n", " ", "y", "e", "a", "r", "=", "{", "t", "b", "a", "}", "\n", "}">> }

BibInputs ==
    {ExampleBib} \cup {Join(bs, NL) : bs \in SeqsUpTo(BlockPool, MaxEntries)}

Init == \E text \in BibInputs : InitAt(text)

Next ==
    \/ SplitStart
    \/ SplitLine
    \/ SplitFlush
    \/ SplitReturn
    \/ ParseEntries
    \/ SortPubs
    \/ SortRaise
    \/ GroupPubs
    \/ SortYears
    \/ RenderSection
    \/ Finish

Spec == Init /\ [][Next]_vars

-----------------------------------------------------------------------------
(* Inputs of parse_entry: a header line followed by at most MaxFieldLines lines
   of FieldLinePool.  Each is a text split_entries can return: it is stripped
   and starts with "@". *)

MaxFieldLines == 3

HeaderPool ==
    { <<"@", "a", "{", "k", ",">>,
      <<"@", "a", "{", "x", "2", "0", "2", "0", ",">>,
      <<"@", "a", "{", "k", " ", "1", "9", "9", "9", ",">> }

FieldLinePool ==
    { <<" ", "y", "e", "a", "r", " ", "=", " ", "{", "2", "0", "2", "1", "}", ",">>,
      <<" ", "y", "e", "a", "r", " ", "=", " ", "{", "}", ",">>,
      <<" ", "t", "i", "t", "l", "e", " ", "=", " ", "{", "T", " ", "2", "0", "0", "5", "}">>,
      <<"Y", "e", "a", "r", " ", "=", " ", "\"", "0", "2", "0", "2", "0", "\"">>,
      <<" ", "n", "o", "t", "e", " ", "=", " ", "{", "x", "1", "9", "8", "7", "y", "}">>,
      <<"}">>,
      <<" ", "y", "e", "a", "r", " ", "=">> }

EntryInputs ==
    {Join(<<h>> \o body, NL) : h \in HeaderPool, body \in SeqsUpTo(FieldLinePool, MaxFieldLines)}

InitParse ==
    \E e \in EntryInputs :
        /\ bib = e
        /\ pc = "parse"
        /\ lines = SplitLines(e)
        /\ idx = Len(SplitLines(e)) + 1
        /\ buff = <<>>
        /\ depth = 0
        /\ in_entry = FALSE
        /\ entries = <<e>>
        /\ pubs = <<>>
        /\ grouped = <<>>
        /\ years = <<>>
        /\ sec = 0
        /\ out = <<>>
        /\ exit_code = -1

NextParse == ParseEntries

SpecParse == InitParse /\ [][NextParse]_vars

-----------------------------------------------------------------------------
(* Inputs of the sort, the grouping and the renderer: every list of at most
   MaxPubs records of SortPool, and every one-record list of MarkupPool.  The
   records are ones parse_entry returns: the year is never empty. *)

MaxPubs == 3

SortPool ==
    { [type |-> S_misc, key |-> <<>>, year |-> <<"2", "0", "2", "0">>, title |-> <<"A", "p", "p", "l", "e">>, author |-> <<>>, venue |-> <<>>, url |-> <<>>, extra |-> <<>>],
      [type |-> S_misc, key |-> <<>>, year |-> <<"U", "n", "k", "n", "o", "w", "n">>, title |-> <<"A", "p", "p", "l", "e">>, author |-> <<>>, venue |-> <<>>, url |-> <<>>, extra |-> <<>>],
      [type |-> S_misc, key |-> <<>>, year |-> <<"2", "0", "2", "0">>, title |-> <<"Z", "e", "b", "r", "a">>, author |-> <<>>, venue |-> <<>>, url |-> <<>>, extra |-> <<>>],
      [type |-> S_misc, key |-> <<>>, year |-> <<"2", "0", "2", "0">>, title |-> <<"a", "p", "p", "l", "e">>, author |-> <<>>, venue |-> <<>>, url |-> <<>>, extra |-> <<>>],
      [type |-> S_misc, key |-> <<>>, year |-> <<"0", "2", "0", "2", "0">>, title |-> <<"Z", "e", "b", "r", "a">>, author |-> <<>>, venue |-> <<>>, url |-> <<>>, extra |-> <<>>],
      [type |-> S_misc, key |-> <<>>, year |-> <<"0", "2", "0", "2", "0">>, title |-> <<"a", "p", "p", "l", "e">>, author |-> <<>>, venue |-> <<>>, url |-> <<>>, extra |-> <<>>],
      [type |-> S_misc, key |-> <<>>, year |-> <<"2", "0", "2", "1">>, title |-> <<"Z", "e", "b", "r", "a">>, author |-> <<>>, venue |-> <<>>, url |-> <<>>, extra |-> <<>>],
      [type |-> S_misc, key |-> <<>>, year |-> <<"2", "0", "2", "1">>, title |-> <<"a", "p", "p", "l", "e">>, author |-> <<>>, venue |-> <<>>, url |-> <<>>, extra |-> <<>>],
      [type |-> S_misc, key |-> <<>>, year |-> <<"U", "n", "k", "n", "o", "w", "n">>, title |-> <<"Z", "e", "b", "r", "a">>, author |-> <<>>, venue |-> <<>>, url |-> <<>>, extra |-> <<>>],
      [type |-> S_misc, key |-> <<>>, year |-> <<"U", "n", "k", "n", "o", "w", "n">>, title |-> <<"a", "p", "p", "l", "e">>, author |-> <<>>, venue |-> <<>>, url |-> <<>>, extra |-> <<>>],
      [type |-> S_misc, key |-> <<>>, year |-> <<"n", ".", "d", ".">>, title |-> <<"Z", "e", "b", "r", "a">>, author |-> <<>>, venue |-> <<>>, url |-> <<>>, extra |-> <<>>],
      [type |-> S_misc, key |-> <<>>, year |-> <<"n", ".", "d", ".">>, title |-> <<"a", "p", "p", "l", "e">>, author |-> <<>>, venue |-> <<>>, url |-> <<>>, extra |-> <<>>],
      [type |-> S_misc, key |-> <<>>, year |-> <<"SUP2">>, title |-> <<"x">>, author |-> <<>>, venue |-> <<>>, url |-> <<>>, extra |-> <<>>] }

MarkupPool ==
    { [type |-> S_misc, key |-> <<>>, year |-> <<"2", "0", "2", "0">>, title |-> t, author |-> a,
       venue |-> <<>>, url |-> u, extra |-> x] :
        t \in { <<"x">>, <<"<", "b", ">">>, <<"a", "&", "b">>, <<"\"", "q", "\"">> },
        a \in { <<>>, <<"A", " ", "&", " ", "B">>, <<"<", "i", ">", "'">> },
        u \in { <<>>, <<"h", ":", "/", "?", "a", "=", "1", "&", "b", "=", "\"", "2", "\"">> },
        x \in { <<>>, <<"J", " ", ">", " ", "K">> } }

PubInputs == (SeqsUpTo(SortPool, MaxPubs) \ {<<>>}) \cup {<<p>> : p \in MarkupPool}

InitSort ==
    \E ps \in PubInputs :
        /\ bib = <<>>
        /\ pc = "sort"
        /\ lines = <<>>
        /\ idx = 1
        /\ buff = <<>>
        /\ depth = 0
        /\ in_entry = FALSE
        /\ entries = <<>>
        /\ pubs = ps
        /\ grouped = <<>>
        /\ years = <<>>
        /\ sec = 0
        /\ out = <<>>
        /\ exit_code = -1

NextSort ==
    \/ SortPubs
    \/ SortRaise
    \/ GroupPubs
    \/ SortYears
    \/ RenderSection
    \/ Finish

SpecSort == InitSort /\ [][NextSort]_vars

-----------------------------------------------------------------------------
(* Properties of split_entries *)

\* a line whose first non-blank character is "@"
AtMarked(line) ==
    \E i \in DOMAIN line : line[i] = "@" /\ \A j \in 1..(i - 1) : IsSpace(line[j])

\* the indices of the "@" lines among the first n lines, in input order
RECURSIVE AtIndices(_)
AtIndices(n) ==
    IF n = 0 THEN <<>>
    ELSE IF AtMarked(lines[n]) THEN Append(AtIndices(n - 1), n)
    ELSE AtIndices(n - 1)

\* the line before the next "@" line after line s (the last line when there is none)
LastBeforeNextAt(s) ==
    LET later == {j \in (s + 1)..Len(lines) : AtMarked(lines[j])}
    IN  IF later = {} THEN Len(lines)
        ELSE (CHOOSE j \in later : \A h \in later : j <= h) - 1

\* braces opened minus braces closed on lines s..j
RECURSIVE RunningDepth(_, _)
RunningDepth(s, j) ==
    IF j < s THEN 0
    ELSE RunningDepth(s, j - 1) + Count(lines[j], "{") - Count(lines[j], "}")

\* the lines of the entry begun at "@" line s at which the closing condition is met
ClosingLines(s) ==
    {j \in s..LastBeforeNextAt(s) :
        /\ RunningDepth(s, j) <= 0
        /\ LET t == Strip(lines[j]) IN t # <<>> /\ t[Len(t)] = "}"}

\* the last line of the entry begun at "@" line s
EntryEnd(s) ==
    IF ClosingLines(s) = {} THEN LastBeforeNextAt(s)
    ELSE CHOOSE j \in ClosingLines(s) : \A h \in ClosingLines(s) : j <= h

\* C8: once the loop and the final flush are over, the entries are, in order, one
\* per "@" line s: the lines from s up to and including the first line at which
\* the depth counted from s is <= 0 and the stripped line ends with "}", or, when
\* no line before the next "@" line meets that, up to the line before the next
\* "@" line or the end of input; the lines in between belong to no entry.
C8_EntryBoundaries ==
    pc \in {"filter", "parse"} =>
        LET at == AtIndices(Len(lines))
        IN  /\ Len(entries) = Len(at)
            /\ \A k \in DOMAIN at :
                   entries[k] = Strip(Join(SubSeq(lines, at[k], EntryEnd(at[k])), NL))

\* a run with an entry closed before trailing lines that are dropped, and an
\* entry that never closes
C8_Witness ==
    /\ pc = "filter"
    /\ LET at == AtIndices(Len(lines))
       IN  /\ \E k \in DOMAIN at :
                  ClosingLines(at[k]) # {} /\ EntryEnd(at[k]) < LastBeforeNextAt(at[k])
           /\ \E k \in DOMAIN at :
                  ClosingLines(at[k]) = {} /\ RunningDepth(at[k], LastBeforeNextAt(at[k])) > 0
           /\ \E k \in DOMAIN at :
                  ClosingLines(at[k]) # {} /\ RunningDepth(at[k], EntryEnd(at[k])) < 0

\* C10: split_entries yields exactly one entry per "@" line, in input order; the
\* only "@" line inside an entry is its first line; no line is in two entries;
\* the final filter removes nothing.
C10_OneEntryPerAtLine ==
    /\ pc = "loop" =>
           Len(entries) + (IF buff = <<>> THEN 0 ELSE 1) = Len(AtIndices(idx - 1))
    /\ pc \in {"filter", "parse"} =>
        LET at == AtIndices(Len(lines))
        IN  /\ Len(entries) = Len(at)
            /\ \A k \in DOMAIN entries :
                   LET ls == SplitLines(entries[k])
                   IN  /\ ls # <<>>
                       /\ Strip(ls[1]) = Strip(lines[at[k]])
                       /\ entries[k][1] = "@"
                       /\ \A j \in 2..Len(ls) : ~AtMarked(ls[j])
            /\ LET RECURSIVE Total(_)
                   Total(k) == IF k = 0 THEN 0
                               ELSE Total(k - 1) + Len(SplitLines(entries[k]))
               IN  Total(Len(entries)) <= Len(lines)

\* a finished split of an unbalanced text: an entry still open (depth > 0) when the
\* next "@" line arrives, and an indented "@" line
C10_Witness ==
    /\ pc = "filter"
    /\ Len(entries) >= 3
    /\ \E s \in DOMAIN lines :
           /\ AtMarked(lines[s]) /\ lines[s][1] # "@"
    /\ \E s \in DOMAIN lines :
           /\ AtMarked(lines[s])
           /\ LastBeforeNextAt(s) < Len(lines)
           /\ ClosingLines(s) = {}
           /\ RunningDepth(s, LastBeforeNextAt(s)) > 0

-----------------------------------------------------------------------------
(* Properties of parse_entry *)

\* the raw values of the matches of the field pattern named "year", in order
YearFieldValues(entry) ==
    LET found == FindAllFields(entry, 1)
        isYear(pair) == Len(pair[1]) = 4
                        /\ \A i \in 1..4 : lowerChar(pair[1][i]) = K_year[i]
    IN  [n \in DOMAIN SelectSeq(found, isYear) |-> SelectSeq(found, isYear)[n][2]]

\* the positions of entry where four decimal digits spell a number in 1900..2099
PlainYears(entry) ==
    {i \in 1..(Len(entry) - 3) :
        /\ \A j \in i..(i + 3) : entry[j] \in Decimal
        /\ LET n == 1000 * DigitTable[entry[i]] + 100 * DigitTable[entry[i + 1]]
                    + 10 * DigitTable[entry[i + 2]] + DigitTable[entry[i + 3]]
           IN  1900 <= n /\ n <= 2099}

\* a letter, a digit or the underscore next to position i, on the given side
WordCharAt(entry, i) == i \in DOMAIN entry /\ IsWord(entry[i])

\* those of PlainYears with no letter, digit or underscore right before or after
DelimitedYears(entry) ==
    {i \in PlainYears(entry) : ~WordCharAt(entry, i - 1) /\ ~WordCharAt(entry, i + 4)}

\* C2 as stated: with no "year" field, the year is the first 4-digit substring in
\* 1900..2099 found anywhere in the entry text, also inside the key or next to
\* other letters or digits.
C2_FirstYearAnywhere ==
    pc = "sort" =>
        \A k \in DOMAIN entries :
            (YearFieldValues(entries[k]) = <<>> /\ PlainYears(entries[k]) # {}) =>
                pubs[k].year = SubSeq(entries[k], Min(PlainYears(entries[k])),
                                      Min(PlainYears(entries[k])) + 3)

\* C2 amended: with no "year" field, the year is the first 4-digit substring in
\* 1900..2099 that has no letter, digit or underscore right before or after it;
\* with no such substring it is "Unknown", whatever digits the key holds.
C2_FirstDelimitedYear ==
    pc = "sort" =>
        \A k \in DOMAIN entries :
            YearFieldValues(entries[k]) = <<>> =>
                IF DelimitedYears(entries[k]) # {}
                THEN pubs[k].year = SubSeq(entries[k], Min(DelimitedYears(entries[k])),
                                           Min(DelimitedYears(entries[k])) + 3)
                ELSE pubs[k].year = S_Unknown

\* a parsed entry without "year" field whose first 4-digit run sits inside the key
\* and whose first delimited year comes later
C2_Witness ==
    /\ pc = "sort"
    /\ \E k \in DOMAIN entries :
           /\ YearFieldValues(entries[k]) = <<>>
           /\ DelimitedYears(entries[k]) # {}
           /\ Min(PlainYears(entries[k])) < Min(DelimitedYears(entries[k]))
           /\ pubs[k].year # S_Unknown

\* C3 as stated: whenever a "year" field is present, whatever its value, the year
\* of the record is clean_value of that field's value.
C3_YearFieldAlways ==
    pc = "sort" =>
        \A k \in DOMAIN entries :
            LET vs == YearFieldValues(entries[k])
            IN  vs # <<>> => pubs[k].year = clean_value(vs[Len(vs)])

\* C3 amended: whenever a "year" field is present and the value of the last one
\* cleans to a non-empty string, the year of the record is that cleaned value; a
\* year field that cleans to the empty string counts as absent (the record's year
\* is then never empty).
C3_YearFieldNonEmpty ==
    pc = "sort" =>
        \A k \in DOMAIN entries :
            LET vs == YearFieldValues(entries[k])
            IN  /\ (vs # <<>> /\ clean_value(vs[Len(vs)]) # <<>>) =>
                       pubs[k].year = clean_value(vs[Len(vs)])
                /\ pubs[k].year # <<>>

\* a parsed entry with two "year" fields of different cleaned values, the last one
\* changed by the cleaning
C3_Witness ==
    /\ pc = "sort"
    /\ \E k \in DOMAIN entries :
           LET vs == YearFieldValues(entries[k])
           IN  /\ Len(vs) = 2
               /\ clean_value(vs[1]) # <<>>
               /\ clean_value(vs[2]) # <<>>
               /\ clean_value(vs[1]) # clean_value(vs[2])
               /\ clean_value(vs[2]) # vs[2]
               /\ pubs[k].year = clean_value(vs[2])

-----------------------------------------------------------------------------
(* Properties of the sort, the grouping and the renderer *)

\* the year string is all decimal digits, so that it has a numeric value
NumericYear(y) == y # <<>> /\ \A i \in DOMAIN y : y[i] \in Decimal

\* the headings printed so far, in order
PrintedYears ==
    LET heads == SelectSeq(out, LAMBDA l : l[1] = L_h2_open)
    IN  [n \in DOMAIN heads |-> SubSeq(heads[n], 2, Len(heads[n]) - 1)]

\* the buckets main has printed are those of years, in that order
BucketsPrinted == PrintedYears = [n \in DOMAIN years |-> escape(years[n])]

\* every numeric bucket comes before every bucket that is not numeric
NumericFirst ==
    \A i, j \in DOMAIN years :
        (NumericYear(years[j]) /\ ~NumericYear(years[i])) => j < i

\* C4 as stated: the numeric buckets come first, each of strictly smaller numeric
\* value than the one before; the others come after them.
C4_StrictlyDescending ==
    pc = "done" =>
        /\ BucketsPrinted
        /\ NumericFirst
        /\ \A i \in 1..(Len(years) - 1) :
               (NumericYear(years[i]) /\ NumericYear(years[i + 1])) =>
                   IntValue(years[i]) > IntValue(years[i + 1])

\* C4 amended: the numeric buckets come first, each of numeric value not greater
\* than the one before (year strings of equal value, such as "2020" and "02020",
\* are distinct buckets next to each other); the others come after them.
C4_Descending ==
    pc = "done" =>
        /\ BucketsPrinted
        /\ NumericFirst
        /\ \A i, j \in DOMAIN years : i # j => years[i] # years[j]
        /\ \A i \in 1..(Len(years) - 1) :
               (NumericYear(years[i]) /\ NumericYear(years[i + 1])) =>
                   IntValue(years[i]) >= IntValue(years[i + 1])

\* a finished run with two numeric buckets of equal value, a smaller one or a
\* non-numeric one after them
C4_Witness ==
    /\ pc = "done"
    /\ Len(out) > 0
    /\ \E i \in 1..(Len(years) - 2) :
           /\ NumericYear(years[i]) /\ NumericYear(years[i + 1])
           /\ IntValue(years[i]) = IntValue(years[i + 1])
           /\ \/ ~NumericYear(years[i + 2])
              \/ IntValue(years[i + 2]) < IntValue(years[i + 1])

\* s <= t for the lowercased strings, in code-point order
RECURSIVE LowerLeq(_, _)
LowerLeq(s, t) ==
    IF s = <<>> THEN TRUE
    ELSE IF t = <<>> THEN FALSE
    ELSE IF lowerChar(s[1]) # lowerChar(t[1]) THEN ord(lowerChar(s[1])) < ord(lowerChar(t[1]))
    ELSE LowerLeq(Tail(s), Tail(t))

\* the list items printed so far, in order
PrintedItems == SelectSeq(out, LAMBDA l : l[1] = L_li_open)

\* the records of all buckets in the order of years
RECURSIVE BucketRecords(_)
BucketRecords(n) ==
    IF n = 0 THEN <<>> ELSE BucketRecords(n - 1) \o GroupOf(grouped, years[n])

\* C5: inside every bucket main prints, numeric or not, the records are in
\* non-decreasing order of their lowercased title.
C5_TitlesAscending ==
    /\ pc \in {"years", "render", "done"} =>
           \A n \in DOMAIN grouped :
               \A i \in 1..(Len(grouped[n][2]) - 1) :
                   LowerLeq(grouped[n][2][i].title, grouped[n][2][i + 1].title)
    /\ pc = "done" =>
           PrintedItems = [i \in DOMAIN BucketRecords(Len(years)) |->
                              <<L_li_open>> \o format_li(BucketRecords(Len(years))[i])
                              \o <<L_li_close>>]

\* a finished run with a bucket that holds "apple" before "Zebra": the order by
\* code points alone would be the other way round
C5_Witness ==
    /\ pc = "done"
    /\ \E n \in DOMAIN grouped :
           /\ Len(grouped[n][2]) >= 2
           /\ grouped[n][2][1].title = <<"a", "p", "p", "l", "e">>
           /\ grouped[n][2][2].title = <<"Z", "e", "b", "r", "a">>
           /\ ~NumericYear(grouped[n][1])
    /\ \E n \in DOMAIN grouped : NumericYear(grouped[n][1])

\* "&" at position i of li starts one of the entities html.escape writes
EntityAt(li, i) ==
    \E e \in {<<"&", "a", "m", "p", ";">>, <<"&", "l", "t", ";">>, <<"&", "g", "t", ";">>, <<"&", "q", "u", "o", "t", ";">>, <<"&", "#", "x", "2", "7", ";">>} :
        i + Len(e) - 1 <= Len(li) /\ SubSeq(li, i, i + Len(e) - 1) = e

\* the number of "&amp;" in li
AmpEntities(li) ==
    Cardinality({i \in DOMAIN li : i + 4 <= Len(li) /\ SubSeq(li, i, i + 4) = <<"&", "a", "m", "p", ";">>})

\* the text of a record that format_li puts into the list item
RecordText(pub) == pub.title \o pub.author \o pub.extra \o pub.url

\* C6: the list item of a record holds no "<", ">" or double quote as a character
\* of its own (the tags and attributes the renderer writes are whole tokens), every
\* "&" in it starts an entity, and each "&" of the record is there as "&amp;".
C6_NoRawMarkup ==
    \A k \in DOMAIN pubs :
        LET li == format_li(pubs[k])
        IN  /\ \A i \in DOMAIN li : li[i] \notin {"<", ">", "\""}
            /\ \A i \in DOMAIN li : li[i] = "&" => EntityAt(li, i)
            /\ AmpEntities(li) = Count(RecordText(pubs[k]), "&")

\* a printed record with "<" and ">" in the title, "&" in the author, ">" in the
\* extra text and a double quote in the link
C6_Witness ==
    /\ pc = "done"
    /\ \E k \in DOMAIN pubs :
           /\ Count(pubs[k].title, "<") > 0
           /\ Count(pubs[k].title, ">") > 0
           /\ Count(pubs[k].author, "&") > 0
           /\ Count(pubs[k].extra, ">") > 0
           /\ Count(pubs[k].url, "\"") > 0
           /\ \E n \in DOMAIN out :
                  out[n] = <<L_li_open>> \o format_li(pubs[k]) \o <<L_li_close>>

-----------------------------------------------------------------------------
(* Properties of the whole pipeline *)

\* what main prints for one bucket holding one list item
OneItemOutput(year, item) ==
    << <<L_section_first>>,
       <<L_h2_open>> \o year \o <<L_h2_close>>,
       <<L_ul_open>>,
       <<L_li_open>> \o item \o <<L_li_close>>,
       <<L_ul_close>>,
       <<L_section_close>> >>

\* C1 as stated: the single-line example yields one bucket "2020" with one list
\* item, the title "Hello World" linked to http://ex.com, the author clause "A, B".
C1_ExampleLinked ==
    (bib = ExampleBib /\ pc = "done") =>
        out = OneItemOutput(<<"2", "0", "2", "0">>,
                  <<L_a_open>> \o <<"h", "t", "t", "p", ":", "/", "/", "e", "x", ".", "c", "o", "m">> \o <<L_a_attrs>> \o <<"H", "e", "l", "l", "o", " ", "W", "o", "r", "l", "d">>
                  \o <<L_a_close, " ", L_dash>> \o <<"A", ",", " ", "B">> \o <<".">>)

\* C1 amended: the single-line example yields one bucket "2020" (the year comes
\* from the search of the entry text) with one list item: the title "Untitled" in
\* bold, without link and without author clause, since the field pattern matches
\* at the start of a line only and the entry has all its fields on the "@" line.
C1_ExampleUntitled ==
    (bib = ExampleBib /\ pc = "done") =>
        /\ out = OneItemOutput(<<"2", "0", "2", "0">>,
                     <<L_strong_open>> \o S_Untitled \o <<L_strong_close>>)
        /\ years = <<<<"2", "0", "2", "0">>>>
        /\ Len(pubs) = 1
        /\ pubs[1].author = <<>>
        /\ pubs[1].url = <<>>
        /\ exit_code = 0

\* the example has run through the whole pipeline
C1_Witness == bib = ExampleBib /\ pc = "done" /\ Len(out) = 6

\* C7: whatever the bibliography text, no stage of the pipeline raises and the
\* exit status is zero.
C7_NeverRaises == pc # "error" /\ exit_code \in {-1, 0}

\* the year of the record parse_entry makes of the k-th raw entry
EntryYear(k) == parse_entry(entries[k]).year

\* the first raw entry whose year is y
FirstEntryOf(y) == Min({k \in DOMAIN entries : EntryYear(k) = y})

\* C9 as stated: the buckets whose year is not all digits come after the numeric
\* ones, in the order in which their year strings are first met in the input.
C9_EncounterOrder ==
    pc = "done" =>
        /\ NumericFirst
        /\ \A i, j \in DOMAIN years :
               (i < j /\ ~isdigit(years[i]) /\ ~isdigit(years[j])) =>
                   FirstEntryOf(years[i]) < FirstEntryOf(years[j])

\* the smallest lowercased title among the records of bucket y
LeastTitle(y) ==
    LET ts == {lower(pubs[k].title) : k \in {h \in DOMAIN pubs : pubs[h].year = y}}
    IN  CHOOSE t \in ts : \A u \in ts : LowerLeq(t, u)

\* the first raw entry of year y whose lowercased title is t
FirstEntryWith(y, t) ==
    Min({k \in DOMAIN entries :
            EntryYear(k) = y /\ lower(parse_entry(entries[k]).title) = t})

\* C9 amended: the buckets whose year is not all digits come after the numeric
\* ones, in non-decreasing order of the smallest lowercased title of their
\* records; two buckets with the same smallest title are in the input order of
\* the entries with that title.
C9_LeastTitleOrder ==
    pc = "done" =>
        /\ NumericFirst
        /\ \A i, j \in DOMAIN years :
               (i < j /\ ~isdigit(years[i]) /\ ~isdigit(years[j])) =>
                   /\ LowerLeq(LeastTitle(years[i]), LeastTitle(years[j]))
                   /\ LeastTitle(years[i]) = LeastTitle(years[j]) =>
                          FirstEntryWith(years[i], LeastTitle(years[i]))
                              < FirstEntryWith(years[j], LeastTitle(years[j]))

\* a finished run with two non-numeric buckets printed against the input order of
\* their years
C9_Witness ==
    /\ pc = "done"
    /\ \E i, j \in DOMAIN years :
           /\ i < j
           /\ ~isdigit(years[i])
           /\ ~isdigit(years[j])
           /\ FirstEntryOf(years[j]) < FirstEntryOf(years[i])
           /\ BucketsPrinted

====
